---------------------------- MODULE Spec2Model ----------------------------
(***************************************************************************)
(* ytsum.py: YouTube URL -> audio -> Whisper transcript -> per-chunk notes *)
(* -> synthesized Markdown.  The model covers main()'s control flow, the   *)
(* chunker chunk_text, the reference parser extract_video_id and the      *)
(* trimming done around every collaborator response.                      *)
(*                                                                         *)
(* Text is a sequence of one-character strings; prompts and responses are *)
(* sequences of tokens (a character, or a fixed piece of text such as a   *)
(* prompt template or a chunk heading).                                   *)
(***************************************************************************)
EXTENDS Integers, Sequences, FiniteSets, TLC

VARIABLES
    pc,           \* position in main() (or in the chunk_text harness)
    exit_code,    \* process exit status; -1 while the process is running
    raised,       \* the uncaught exception that ended the run, "none" otherwise
    has_key,      \* os.getenv("OPENAI_API_KEY") is truthy
    ffmpeg_ok,    \* `ffmpeg -version` runs and exits 0
    url,          \* args.url
    max_chars,    \* args.max_chars
    td_exists,    \* the TemporaryDirectory exists on disk
    audio_exists, \* an audio.* file exists inside it
    result_kind,  \* what model.transcribe returned as result.get("text"), by kind
    transcript,   \* main's transcript (the text handed to chunk_text)
    chunks,       \* main's chunks
    chunk_notes,  \* main's chunk_notes
    i,            \* the enumerate(..., start=1) index of the next chunk
    final_md,     \* main's final_md
    ext_calls,    \* external programs / services invoked, in order
    prompts,      \* the input of every client.responses.create call, in order
    responses,    \* the outcome of every such call, in order
    out_file0,    \* args.out on disk when the run starts
    out_file      \* args.out on disk now

vars == <<pc, exit_code, raised, has_key, ffmpeg_ok, url, max_chars, td_exists,
          audio_exists, result_kind, transcript, chunks, chunk_notes, i,
          final_md, ext_calls, prompts, responses, out_file0, out_file>>

---------------------------------------------------------------------------
(* Bounds of the model *)

\* longest text (transcript / chunker input) explored, in characters
MaxLen == 5

\* largest --max-chars explored
MaxChars == 3

---------------------------------------------------------------------------
(* Python values and string helpers *)

\* Python's None, where a text may be missing
None == <<"<None>">>

\* `x or ""`
or_empty(x) == IF x = None THEN <<>> ELSE x

\* the characters str.split() and str.strip() treat as whitespace
IsSpace(c) == c \in {" ", "\n"}

RECURSIVE lstrip(_)
lstrip(s) == IF s # <<>> /\ IsSpace(Head(s)) THEN lstrip(Tail(s)) ELSE s

RECURSIVE rstrip(_)
rstrip(s) ==
    IF s # <<>> /\ IsSpace(s[Len(s)]) THEN rstrip(SubSeq(s, 1, Len(s) - 1)) ELSE s

\* str.strip()
strip(s) == rstrip(lstrip(s))

RECURSIVE split_loop(_, _, _)
split_loop(s, word, words) ==
    IF s = <<>>
    THEN IF word = <<>> THEN words ELSE Append(words, word)
    ELSE IF IsSpace(Head(s))
         THEN split_loop(Tail(s), <<>>,
                         IF word = <<>> THEN words ELSE Append(words, word))
         ELSE split_loop(Tail(s), Append(word, Head(s)), words)

\* str.split(): the maximal runs of non-whitespace, in order
split(s) == split_loop(s, <<>>, <<>>)

RECURSIVE join(_, _)
\* sep.join(items)
join(sep, items) ==
    IF items = <<>> THEN <<>>
    ELSE IF Len(items) = 1 THEN items[1]
    ELSE items[1] \o sep \o join(sep, Tail(items))

\* all sequences over `alphabet` of length at most n
TextsUpTo(alphabet, n) == UNION {[1..k -> alphabet] : k \in 0..n}

---------------------------------------------------------------------------
(* chunk_text *)

add_len_nosep(w) == Len(w)

\* add = len(w) + 1
add_len(w) == Len(w) + 1

new_cur_dropped(w) == <<>>

\* cur = [w]
new_cur(w) == <<w>>

\* chunks.append(" ".join(cur).strip())
close_chunk(chunks_, cur) == Append(chunks_, strip(join(<<" ">>, cur)))

final_flush_missing(chunks_, cur) == chunks_

\* if cur: chunks.append(...)
final_flush(chunks_, cur) == IF cur # <<>> THEN close_chunk(chunks_, cur) ELSE chunks_

RECURSIVE chunk_loop(_, _, _, _, _)
\* the for loop over words, then the final flush
chunk_loop(words, B, chunks_, cur, cur_len) ==
    IF words = <<>>
    THEN final_flush(chunks_, cur)
    ELSE LET w   == Head(words)
             add == add_len(w)
         IN  IF cur_len + add > B /\ cur # <<>>
             THEN chunk_loop(Tail(words), B, close_chunk(chunks_, cur),
                             new_cur(w), Len(w) + 1)
             ELSE chunk_loop(Tail(words), B, chunks_, Append(cur, w), cur_len + add)

chunk_text(text, B) == chunk_loop(split(text), B, <<>>, <<>>, 0)

---------------------------------------------------------------------------
(* extract_video_id *)

\* {11} in every pattern of YOUTUBE_ID_PATTERNS and in the bare-id fullmatch
IdLen == 11

\* the characters of the model's alphabet that [A-Za-z0-9_-] matches
IdChars == {"x", "v", "y", "o", "u", "t", "b", "e", "m", "d", "s", "h", "r", "_", "-"}

\* the literal that precedes the captured group in each pattern, in list order
YOUTUBE_ID_PATTERNS ==
    << <<"v", "=">>,
       <<"y", "o", "u", "t", "u", ".", "b", "e", "/">>,
       <<"/", "e", "m", "b", "e", "d", "/">>,
       <<"/", "s", "h", "o", "r", "t", "s", "/">> >>

\* s consists of exactly IdLen id characters
IsId(s) == Len(s) = IdLen /\ \A k \in 1..Len(s) : s[k] \in IdChars

\* literal lit, then IdLen id characters, occur in s from position p on
MatchAt(lit, s, p) ==
    /\ p + Len(lit) + IdLen - 1 <= Len(s)
    /\ \A k \in 1..Len(lit) : s[p + k - 1] = lit[k]
    /\ \A k \in 1..IdLen : s[p + Len(lit) + k - 1] \in IdChars

\* re.search(pat, url) finds a match
Matches(lit, s) == \E p \in 1..Len(s) : MatchAt(lit, s, p)

\* re.search(pat, url).group(1): the group of the leftmost match
SearchGroup(lit, s) ==
    LET p == CHOOSE q \in 1..Len(s) :
                 MatchAt(lit, s, q) /\ \A r \in 1..(q - 1) : ~MatchAt(lit, s, r)
    IN  SubSeq(s, p + Len(lit), p + Len(lit) + IdLen - 1)

\* the ValueError raised when nothing matches
ValueError == <<"<ValueError>">>

RECURSIVE extract_from(_, _)
extract_from(k, u) ==
    IF k > Len(YOUTUBE_ID_PATTERNS)
    THEN IF IsId(strip(u)) THEN strip(u) ELSE ValueError
    ELSE IF Matches(YOUTUBE_ID_PATTERNS[k], u)
         THEN SearchGroup(YOUTUBE_ID_PATTERNS[k], u)
         ELSE extract_from(k + 1, u)

extract_video_id(u) == extract_from(1, u)

\* n id characters
IdRun(n) == [k \in 1..n |-> "x"]

\* the references explored: nothing or a known URL shape or a blank, then an
\* id run that is one short, exact or one long
Urls ==
    {pre \o IdRun(n) \o suf :
        pre \in {<<>>, <<" ">>} \cup {YOUTUBE_ID_PATTERNS[k] : k \in 1..4},
        n \in {IdLen - 1, IdLen, IdLen + 1},
        suf \in {<<>>}}

---------------------------------------------------------------------------
(* collaborators *)

CHUNK_PROMPT == <<"<CHUNK_PROMPT>">>

FINAL_PROMPT == <<"<FINAL_PROMPT>">>

\* a collaborator call that raises instead of returning
Raise == <<"<raise>">>

\* a well-formed six-heading document, already trimmed
SixHeadingDoc ==
    <<"# Executive Summary", "\n", "# Full Outline", "\n", "# Detailed Notes", "\n",
      "# Key Concepts & Definitions", "\n", "# Memorable Examples / Analogies", "\n",
      "# Action Items / Takeaways (if any)">>

\* a response with whitespace around and inside it
Untrimmed == <<"\n", " ", "x", " ", "y", "\n", "\n">>

\* resp.output_text of the text-generation collaborator
OutputTexts == {None, Untrimmed, SixHeadingDoc}

\* result.get("text") of the speech-recognition collaborator
WhisperTexts == {None} \cup TextsUpTo({"a", " "}, MaxLen)

\* the kind of a recognized text: missing, empty, whitespace only, or with words
KindOf(text) ==
    IF text = None THEN "missing"
    ELSE IF text = <<>> THEN "empty"
    ELSE IF \A k \in 1..Len(text) : IsSpace(text[k]) THEN "whitespace"
    ELSE "words"

\* return (result.get("text") or "").strip()
transcribe_unstripped(text) == or_empty(text)

transcribe_with_whisper(text) == strip(or_empty(text))

\* return (resp.output_text or "").strip()
call_openai(output_text) == strip(or_empty(output_text))

chunk_note_from_zero(k, notes) == strip(<<"## Chunk " \o ToString(k - 1), "\n", "\n">> \o notes)

\* f"## Chunk {i}\n\n{notes}".strip()
chunk_note(k, notes) == strip(<<"## Chunk " \o ToString(k), "\n", "\n">> \o notes)

\* FINAL_PROMPT + "\n\n---\n\n".join(chunk_notes)
final_prompt(notes) == FINAL_PROMPT \o join(<<"\n", "\n", "---", "\n", "\n">>, notes)

persisted_no_newline(md) == strip(md)

\* final_md.strip() + "\n"
persisted(md) == strip(md) \o <<"\n">>

NoFile == [exists |-> FALSE, content |-> <<>>]

OldFile == [exists |-> TRUE, content |-> <<"o", "l", "d", "\n">>]

---------------------------------------------------------------------------
(* main *)

\* `return code` from main, then raise SystemExit(main())
Return(code) == pc' = "exit" /\ exit_code' = code /\ UNCHANGED raised

\* an exception nothing catches: traceback, exit status 1
Uncaught(exc) == pc' = "exit" /\ exit_code' = 1 /\ raised' = exc

TemporaryDirectory_leak == UNCHANGED <<td_exists, audio_exists>>

\* leaving the `with tempfile.TemporaryDirectory()` block, normally or by exception
TemporaryDirectory_exit == td_exists' = FALSE /\ audio_exists' = FALSE

Init ==
    /\ pc = "check_key"
    /\ exit_code = -1
    /\ raised = "none"
    /\ has_key \in BOOLEAN
    /\ ffmpeg_ok \in BOOLEAN
    /\ url \in Urls
    /\ max_chars \in 1..MaxChars
    /\ td_exists = FALSE
    /\ audio_exists = FALSE
    /\ result_kind = "not called"
    /\ transcript = <<>>
    /\ chunks = <<>>
    /\ chunk_notes = <<>>
    /\ i = 0
    /\ final_md = <<>>
    /\ ext_calls = <<>>
    /\ prompts = <<>>
    /\ responses = <<>>
    /\ out_file0 \in {NoFile, OldFile}
    /\ out_file = out_file0

\* if not os.getenv("OPENAI_API_KEY"): ...; return 2
CheckKey ==
    /\ pc = "check_key"
    /\ IF has_key
       THEN pc' = "ensure_ffmpeg" /\ UNCHANGED <<exit_code, raised>>
       ELSE Return(2)
    /\ UNCHANGED <<has_key, ffmpeg_ok, url, max_chars, td_exists, audio_exists,
                   result_kind, transcript, chunks, chunk_notes, i, final_md,
                   ext_calls, prompts, responses, out_file0, out_file>>

\* ensure_ffmpeg(): the RuntimeError it raises is caught nowhere
EnsureFfmpeg ==
    /\ pc = "ensure_ffmpeg"
    /\ ext_calls' = Append(ext_calls, "ffmpeg")
    /\ IF ffmpeg_ok
       THEN pc' = "extract_video_id" /\ UNCHANGED <<exit_code, raised>>
       ELSE Uncaught("RuntimeError: ffmpeg not found")
    /\ UNCHANGED <<has_key, ffmpeg_ok, url, max_chars, td_exists, audio_exists,
                   result_kind, transcript, chunks, chunk_notes, i, final_md,
                   prompts, responses, out_file0, out_file>>

ValidateUrl_no_return ==
    /\ pc = "extract_video_id"
    /\ pc' = "tempdir"
    /\ UNCHANGED <<exit_code, raised, has_key, ffmpeg_ok, url, max_chars, td_exists,
                   audio_exists, result_kind, transcript, chunks, chunk_notes, i,
                   final_md, ext_calls, prompts, responses, out_file0, out_file>>

\* try: extract_video_id(args.url) except ValueError: return 2; client = OpenAI()
ValidateUrl ==
    /\ pc = "extract_video_id"
    /\ IF extract_video_id(url) = ValueError
       THEN Return(2)
       ELSE pc' = "tempdir" /\ UNCHANGED <<exit_code, raised>>
    /\ UNCHANGED <<has_key, ffmpeg_ok, url, max_chars, td_exists, audio_exists,
                   result_kind, transcript, chunks, chunk_notes, i, final_md,
                   ext_calls, prompts, responses, out_file0, out_file>>

\* with tempfile.TemporaryDirectory() as td:
EnterTempDir ==
    /\ pc = "tempdir"
    /\ td_exists' = TRUE
    /\ pc' = "download"
    /\ UNCHANGED <<exit_code, raised, has_key, ffmpeg_ok, url, max_chars,
                   audio_exists, result_kind, transcript, chunks, chunk_notes, i,
                   final_md, ext_calls, prompts, responses, out_file0, out_file>>

\* download_audio_with_ytdlp: non-zero exit or no file produced raise RuntimeError
Download ==
    /\ pc = "download"
    /\ ext_calls' = Append(ext_calls, "yt_dlp")
    /\ \E outcome \in {"ok", "nonzero", "nofile"} :
          IF outcome = "ok"
          THEN /\ audio_exists' = TRUE
               /\ pc' = "transcribe"
               /\ UNCHANGED <<exit_code, raised, td_exists>>
          ELSE /\ TemporaryDirectory_exit
               /\ Uncaught("RuntimeError: yt-dlp")
    /\ UNCHANGED <<has_key, ffmpeg_ok, url, max_chars, result_kind, transcript,
                   chunks, chunk_notes, i, final_md, prompts, responses,
                   out_file0, out_file>>

\* transcript = transcribe_with_whisper(...), then the with block ends
Transcribe ==
    /\ pc = "transcribe"
    /\ ext_calls' = Append(ext_calls, "whisper")
    /\ TemporaryDirectory_exit
    /\ \E r \in WhisperTexts \cup {Raise} :
          IF r = Raise
          THEN /\ Uncaught("WhisperError")
               /\ UNCHANGED <<result_kind, transcript>>
          ELSE /\ result_kind' = KindOf(r)
               /\ transcript' = transcribe_with_whisper(r)
               /\ pc' = "check_transcript"
               /\ UNCHANGED <<exit_code, raised>>
    /\ UNCHANGED <<has_key, ffmpeg_ok, url, max_chars, chunks, chunk_notes, i,
                   final_md, prompts, responses, out_file0, out_file>>

\* if not transcript: return 3
CheckTranscript ==
    /\ pc = "check_transcript"
    /\ IF transcript = <<>>
       THEN Return(3)
       ELSE pc' = "chunk" /\ UNCHANGED <<exit_code, raised>>
    /\ UNCHANGED <<has_key, ffmpeg_ok, url, max_chars, td_exists, audio_exists,
                   result_kind, transcript, chunks, chunk_notes, i, final_md,
                   ext_calls, prompts, responses, out_file0, out_file>>

\* chunks = chunk_text(transcript, max_chars=args.max_chars); chunk_notes = []
Chunk ==
    /\ pc = "chunk"
    /\ chunks' = chunk_text(transcript, max_chars)
    /\ chunk_notes' = <<>>
    /\ i' = 1
    /\ pc' = "summarize"
    /\ UNCHANGED <<exit_code, raised, has_key, ffmpeg_ok, url, max_chars, td_exists,
                   audio_exists, result_kind, transcript, final_md, ext_calls,
                   prompts, responses, out_file0, out_file>>

Summarize_swallow ==
    /\ pc = "summarize"
    /\ i <= Len(chunks)
    /\ prompts' = Append(prompts, CHUNK_PROMPT \o chunks[i])
    /\ ext_calls' = Append(ext_calls, "openai")
    /\ \E r \in OutputTexts \cup {Raise} :
          /\ responses' = Append(responses, r)
          /\ chunk_notes' = Append(chunk_notes,
                                   chunk_note(i, IF r = Raise THEN <<>> ELSE call_openai(r)))
          /\ i' = i + 1
          /\ UNCHANGED <<pc, exit_code, raised>>
    /\ UNCHANGED <<has_key, ffmpeg_ok, url, max_chars, td_exists, audio_exists,
                   result_kind, transcript, chunks, final_md, out_file0, out_file>>

\* one pass of the for loop: notes = call_openai(...); chunk_notes.append(...)
Summarize ==
    /\ pc = "summarize"
    /\ i <= Len(chunks)
    /\ prompts' = Append(prompts, CHUNK_PROMPT \o chunks[i])
    /\ ext_calls' = Append(ext_calls, "openai")
    /\ \E r \in OutputTexts \cup {Raise} :
          /\ responses' = Append(responses, r)
          /\ IF r = Raise
             THEN /\ Uncaught("OpenAIError")
                  /\ UNCHANGED <<chunk_notes, i>>
             ELSE /\ chunk_notes' = Append(chunk_notes, chunk_note(i, call_openai(r)))
                  /\ i' = i + 1
                  /\ UNCHANGED <<pc, exit_code, raised>>
    /\ UNCHANGED <<has_key, ffmpeg_ok, url, max_chars, td_exists, audio_exists,
                   result_kind, transcript, chunks, final_md, out_file0, out_file>>

\* the loop is exhausted: final_md = call_openai(client, model, FINAL_PROMPT + ...)
Synthesize ==
    /\ pc = "summarize"
    /\ i > Len(chunks)
    /\ prompts' = Append(prompts, final_prompt(chunk_notes))
    /\ ext_calls' = Append(ext_calls, "openai")
    /\ \E r \in OutputTexts \cup {Raise} :
          /\ responses' = Append(responses, r)
          /\ IF r = Raise
             THEN /\ Uncaught("OpenAIError")
                  /\ UNCHANGED final_md
             ELSE /\ final_md' = call_openai(r)
                  /\ pc' = "persist"
                  /\ UNCHANGED <<exit_code, raised>>
    /\ UNCHANGED <<has_key, ffmpeg_ok, url, max_chars, td_exists, audio_exists,
                   result_kind, transcript, chunks, chunk_notes, i, out_file0, out_file>>

\* with open(args.out, "w") as f: f.write(final_md.strip() + "\n"); return 0
Persist ==
    /\ pc = "persist"
    /\ \E opened \in BOOLEAN :
          IF opened
          THEN /\ out_file' = [exists |-> TRUE, content |-> persisted(final_md)]
               /\ Return(0)
          ELSE /\ Uncaught("OSError")
               /\ UNCHANGED out_file
    /\ UNCHANGED <<has_key, ffmpeg_ok, url, max_chars, td_exists, audio_exists,
                   result_kind, transcript, chunks, chunk_notes, i, final_md,
                   ext_calls, prompts, responses, out_file0>>

Next ==
    \/ CheckKey
    \/ EnsureFfmpeg
    \/ ValidateUrl
    \/ EnterTempDir
    \/ Download
    \/ Transcribe
    \/ CheckTranscript
    \/ Chunk
    \/ Summarize
    \/ Synthesize
    \/ Persist

Spec == Init /\ [][Next]_vars

---------------------------------------------------------------------------
(* chunk_text called directly, on any text and any positive bound *)

ChunkInit ==
    /\ pc = "call_chunk_text"
    /\ exit_code = -1
    /\ raised = "none"
    /\ has_key = TRUE
    /\ ffmpeg_ok = TRUE
    /\ url = IdRun(IdLen)
    /\ max_chars \in 1..(MaxLen + 1)
    /\ td_exists = FALSE
    /\ audio_exists = FALSE
    /\ result_kind = "not called"
    /\ transcript \in TextsUpTo({"a", "b", " "}, MaxLen)
    /\ chunks = <<>>
    /\ chunk_notes = <<>>
    /\ i = 0
    /\ final_md = <<>>
    /\ ext_calls = <<>>
    /\ prompts = <<>>
    /\ responses = <<>>
    /\ out_file0 = NoFile
    /\ out_file = NoFile

ChunkTextCall ==
    /\ pc = "call_chunk_text"
    /\ chunks' = chunk_text(transcript, max_chars)
    /\ pc' = "chunk_text_returned"
    /\ UNCHANGED <<exit_code, raised, has_key, ffmpeg_ok, url, max_chars, td_exists,
                   audio_exists, result_kind, transcript, chunk_notes, i, final_md,
                   ext_calls, prompts, responses, out_file0, out_file>>

ChunkNext == ChunkTextCall

ChunkSpec == ChunkInit /\ [][ChunkNext]_vars

---------------------------------------------------------------------------
(* Properties of chunk_text, checked under ChunkSpec *)

Returned == pc = "chunk_text_returned"

RECURSIVE WordsOf(_)
\* the words of a chunk sequence, chunk by chunk
WordsOf(cs) == IF cs = <<>> THEN <<>> ELSE split(Head(cs)) \o WordsOf(Tail(cs))

\* C1: the words of the chunks, taken chunk by chunk in order, are exactly the
\* whitespace-split words of the text (nothing dropped, duplicated or
\* reordered); re-joining the chunks with single spaces and re-splitting gives
\* the same; every chunk is its own words joined by single spaces.
C1_LosslessPartition ==
    Returned =>
        /\ WordsOf(chunks) = split(transcript)
        /\ split(join(<<" ">>, chunks)) = split(transcript)
        /\ \A k \in 1..Len(chunks) : chunks[k] = join(<<" ">>, split(chunks[k]))

C1_Witness ==
    /\ Returned
    /\ Len(chunks) >= 2
    /\ \E k \in 1..Len(chunks) : Len(split(chunks[k])) >= 2

\* C2: every chunk's rendered length is at most the bound, except a chunk of
\* exactly one word that is itself longer than the bound; a word longer than
\* the bound never shares a chunk with another word.
C2_BoundRespect ==
    Returned =>
        \A k \in 1..Len(chunks) :
            LET ws == split(chunks[k])
            IN  /\ \/ Len(chunks[k]) <= max_chars
                   \/ Len(ws) = 1 /\ Len(ws[1]) > max_chars
                /\ (\E j \in 1..Len(ws) : Len(ws[j]) > max_chars) => Len(ws) = 1

C2_Witness ==
    /\ Returned
    /\ \E k \in 1..Len(chunks) : Len(chunks[k]) > max_chars
    /\ \E k \in 1..Len(chunks) : Len(chunks[k]) <= max_chars

\* C3 as stated: a non-empty text yields a non-empty chunk sequence, the empty
\* text yields the empty sequence.
C3_NonEmptyTextNonEmptyChunks ==
    Returned =>
        /\ transcript # <<>> => chunks # <<>>
        /\ transcript = <<>> => chunks = <<>>

\* C3 amended: the chunk sequence is non-empty exactly when the text holds at
\* least one non-whitespace character; the empty text and a text of whitespace
\* only yield the empty sequence.
C3_NonBlankTextNonEmptyChunks ==
    Returned =>
        ((\E k \in 1..Len(transcript) : ~IsSpace(transcript[k])) <=> chunks # <<>>)

C3_Witness ==
    /\ Returned
    /\ transcript # <<>>
    /\ \A k \in 1..Len(transcript) : IsSpace(transcript[k])
    /\ chunks = <<>>

---------------------------------------------------------------------------
(* Properties of main, checked under Spec *)

Exited == pc = "exit"

BadReference == extract_video_id(url) = ValueError

\* the three collaborators of the pipeline
Collaborators == {"yt_dlp", "whisper", "openai"}

Called(svc) == \E k \in 1..Len(ext_calls) : ext_calls[k] = svc

\* C4: a run that ends on a missing credential, a malformed reference or a
\* missing ffmpeg ends with exit code 2, whatever the other inputs are.
C4_ConfigFailureExits2 ==
    (Exited /\ (~has_key \/ ~ffmpeg_ok \/ BadReference)) => exit_code = 2

\* C5: when the credential is missing or the reference does not parse, no
\* collaborator is ever called, no temporary directory is made, the output
\* file is untouched and the run never gets past validation.
C5_ValidateBeforeExternalCalls ==
    (~has_key \/ BadReference) =>
        /\ \A k \in 1..Len(ext_calls) : ext_calls[k] \notin Collaborators
        /\ prompts = <<>>
        /\ ~td_exists
        /\ out_file = out_file0
        /\ pc \in {"check_key", "ensure_ffmpeg", "extract_video_id", "exit"}
        /\ Exited => exit_code # 0

C5_Witness ==
    /\ Exited
    /\ has_key
    /\ BadReference
    /\ exit_code = 2
    /\ Called("ffmpeg")

\* C6: when the speech-recognition call returns and its text is missing, empty
\* or whitespace only, the run ends with exit code 3 and no exception, before
\* chunking: no text-generation call, no output file written.
C6_EmptyTranscriptExits3 ==
    result_kind \in {"missing", "empty", "whitespace"} =>
        /\ pc \in {"check_transcript", "exit"}
        /\ Exited => (exit_code = 3 /\ raised = "none")
        /\ chunks = <<>>
        /\ prompts = <<>>
        /\ ~Called("openai")
        /\ out_file = out_file0

C6_Witness ==
    /\ Exited
    /\ exit_code = 3
    /\ result_kind = "whitespace"

\* the chunk headings main can write
ChunkMarkers == {"## Chunk " \o ToString(k) : k \in 0..(MaxLen + 2)}

IsMarker(tok) == tok \in ChunkMarkers

\* the chunk headings of a prompt, in order of appearance
Markers(prompt) == SelectSeq(prompt, IsMarker)

\* C7: the k-th text-generation call is the summarization of chunk k, for k
\* up to N; a synthesis call is call N + 1 and comes after N summarization
\* calls that all returned; once synthesis has returned there were exactly
\* N + 1 calls and the synthesis input's chunk headings are those of 1..N in
\* increasing order, each once.
C7_CallOrder ==
    LET N == Len(chunks)
    IN  /\ Len(prompts) <= N + 1
        /\ \A k \in 1..Len(prompts) :
              IF k <= N
              THEN prompts[k] = CHUNK_PROMPT \o chunks[k]
              ELSE /\ Head(prompts[k]) = Head(FINAL_PROMPT)
                   /\ \A j \in 1..(k - 1) : responses[j] # Raise
        /\ (pc = "persist" \/ (Exited /\ exit_code = 0)) =>
              /\ Len(prompts) = N + 1
              /\ N >= 1
              /\ Markers(prompts[N + 1]) = [k \in 1..N |-> "## Chunk " \o ToString(k)]

C7_Witness ==
    /\ Exited
    /\ exit_code = 0
    /\ Len(chunks) = 3
    /\ Len(prompts) = 4

\* C8: a text-generation call that raises is the last call of the run: the run
\* has ended, not with exit code 0, nothing more can happen, and the output
\* file is as it was when the run started.
C8_FailFast ==
    \A k \in 1..Len(responses) :
        responses[k] = Raise =>
            /\ k = Len(responses)
            /\ Len(prompts) = k
            /\ Exited
            /\ exit_code # 0
            /\ raised = "OpenAIError"
            /\ ~ENABLED Next
            /\ out_file = out_file0

C8_Witness ==
    /\ Len(chunks) = 3
    /\ Len(responses) = 2
    /\ responses[2] = Raise
    /\ out_file0 = OldFile
    /\ Exited

\* C9: a run that ends with exit code 0 leaves in the output file the
\* synthesis response, trimmed, plus one newline: the six-heading document
\* plus a newline when that is the response, a lone newline when the response
\* is missing.
C9_PersistedContent ==
    (Exited /\ exit_code = 0) =>
        LET resp == responses[Len(responses)]
        IN  /\ out_file.exists
            /\ out_file.content = strip(or_empty(resp)) \o <<"\n">>
            /\ resp = SixHeadingDoc => out_file.content = SixHeadingDoc \o <<"\n">>
            /\ resp = None => out_file.content = <<"\n">>
            /\ Len(out_file.content) >= 2 =>
                  ~IsSpace(out_file.content[Len(out_file.content) - 1])

C9_Witness ==
    /\ Exited
    /\ exit_code = 0
    /\ responses[Len(responses)] = None
    /\ out_file.content = <<"\n">>
    /\ out_file0 = OldFile

\* C10: outside the download and transcription steps the temporary directory
\* and its audio file do not exist, whichever way those steps were left.
C10_TempDirReleased ==
    pc \notin {"download", "transcribe"} => (~td_exists /\ ~audio_exists)

C10_Witness ==
    /\ Exited
    /\ raised = "WhisperError"
    /\ Called("yt_dlp")
    /\ ~td_exists
    /\ ~audio_exists

=============================================================================
